---- MODULE Spec2Model ----
(***************************************************************************)
(* One collection run of the repository collector                          *)
(* (vcs_scraper/repository_collector/common.py): collect_repositories      *)
(* looks up the VCS instance, lists the project's repositories, fetches    *)
(* each one's latest commit, reports the full listing to the backend and   *)
(* enqueues one scan task per repository that has a commit.                *)
(*                                                                         *)
(* The remote parties (VCS, backend, queue broker) are the environment:    *)
(* every call to them draws its outcome from the outcomes the call can     *)
(* have.  The logs (repos_calls, commit_calls, export_calls, posts,         *)
(* send_calls) record the calls the run made, in order.                    *)
(***************************************************************************)
EXTENDS Integers, Sequences, FiniteSets, TLC

\* ---------------------------------------------------------------- bounds

\* The largest number of repositories a project holds.
MaxRepos == 3

\* The most repositories the backend's store holds.
MaxDbRepos == 2

\* The most repositories the listing of one of two concurrent runs holds.
MaxRunRepos == 2

\* ------------------------------------------------------- values and inputs

\* Python's None.
None == "None"

ProjectKeys == {"P1", "P2"}

\* The keys of the VCS instance map loaded from VCS_INSTANCES_FILE_PATH.
VcsInstancesMap == {"bitbucket_srv", "github_pub", "legacy_svn"}

\* The provider type configured for an instance of the map.
ProviderType(name) ==
    CASE name = "bitbucket_srv" -> "BITBUCKET"
      [] name = "github_pub" -> "GITHUB_PUBLIC"
      [] name = "legacy_svn" -> "SUBVERSION"

\* The provider types VCSConnectorFactory has a connector variant for.
SupportedProviders == {"BITBUCKET", "AZURE_DEVOPS", "GITHUB_PUBLIC"}

\* The vcs_instance_name argument a run may be started with.
VcsInstanceNames == VcsInstancesMap \cup {"unknown_vcs"}

\* Commit hashes a repository's head can have.
Commits == {"abc", "def"}

SECRET_SCANNER_TASK_NAME == "secret_scanner"

REPOSITORY_QUEUE == "repositories"

\* requests.exceptions: HTTPError, ConnectionError and Timeout are siblings
\* under RequestException.
HTTPError == "HTTPError"

RequestException == {"HTTPError", "ConnectionError", "Timeout"}

\* What vcs_client.get_repos can raise.
ListingErrors == RequestException

\* What vcs_client.get_latest_commit can do: return a commit hash, return
\* None (no commits), or raise a requests exception.
CommitOutcomes == Commits \cup {None} \cup RequestException

\* What requests.post / raise_for_status can do: a 2xx response, a non-2xx
\* response (raise_for_status raises HTTPError), a raised ConnectionError /
\* Timeout, or a backend that accepts the connection and never answers.
PostOutcomes == {"2xx", "non2xx", "ConnectionError", "Timeout", "no_response"}

\* The timeout argument of requests.post: none is passed, and requests then
\* waits for the response without limit.
PostTimeout == None

\* What celery_client.send_task can do: publish, or raise.
SendOutcomes == {"ok", "OperationalError"}

\* The raw record the VCS returns for repository i of project pk.  Its name
\* differs from its id.
RawRecord(i, pk) ==
    [id |-> i,
     name |-> "repo_" \o ToString(i),
     project |-> pk,
     url |-> "https://vcs/" \o pk \o "/repo_" \o ToString(i)]

\* A raw record that lacks the "id" key.
MalformedRecord(pk) ==
    [name |-> "repo_0",
     project |-> pk,
     url |-> "https://vcs/" \o pk \o "/repo_0"]

\* key in record (a Python dict): record[key] raises KeyError otherwise.
HasKey(record, key) == key \in DOMAIN record

\* Sequences without repetition over S, of length at most n.
RECURSIVE DistinctSeqs(_, _)
DistinctSeqs(S, n) ==
    IF n = 0 THEN {<<>>}
    ELSE LET shorter == DistinctSeqs(S, n - 1)
             longest == {t \in shorter : Len(t) = n - 1}
         IN  shorter \cup
             {Append(p[1], p[2]) :
                 p \in {q \in longest \X S :
                            \A k \in DOMAIN q[1] : q[1][k] # q[2]}}

\* The listings a project can have: its repositories, each once, in the
\* order the VCS returns them.
Listings(pk) ==
    {[k \in DOMAIN s |-> RawRecord(s[k], pk)] : s \in DistinctSeqs(1..MaxRepos, MaxRepos)}

\* The listings of a VCS that may also return a record without an id.
ListingsAnyRecord(pk) ==
    {[k \in DOMAIN s |->
         IF s[k] = 0 THEN MalformedRecord(pk) ELSE RawRecord(s[k], pk)] :
       s \in DistinctSeqs(0..MaxRepos, MaxRepos)}

\* ------------------------------------------------------------------ state

VARIABLES
    pc,                   \* the run's position
    project_key,          \* argument of collect_repositories
    vcs_instance_name,    \* argument of collect_repositories
    vcs_repos,            \* what the VCS holds for the project (listing order)
    repos_calls,          \* log of get_repos calls
    project_repositories, \* local of extract_project_information
    idx,                  \* repositories the for loop has finished with
    project_tasks,        \* local of extract_project_information
    commit_calls,         \* log of get_latest_commit calls
    export_calls,         \* log of export_repository calls
    posts,                \* log of requests.post calls
    task_idx,             \* tasks the dispatch loop has finished with
    send_calls,           \* log of celery_client.send_task calls
    raised,               \* the exception that left collect_repositories
    \* the backend's repository endpoints
    db_repositories,      \* stored repositories, by id_
    db_related,           \* ids of the repositories that own branches, scans, findings
    request,              \* the request being answered
    crud_calls,           \* calls of crud.repository made for the request
    response,             \* the response to the request
    \* two runs of collect_repositories in one worker
    runs,                 \* each run's arguments and locals
    queue_calls,          \* send_task calls made through the shared celery_client
    report_calls          \* requests.post calls received by the backend

collector_vars ==
    <<pc, project_key, vcs_instance_name, vcs_repos, repos_calls,
      project_repositories, idx, project_tasks, commit_calls, export_calls,
      posts, task_idx, send_calls, raised>>

backend_vars == <<db_repositories, db_related, request, crud_calls, response>>

concurrent_vars == <<runs, queue_calls, report_calls>>

vars == <<collector_vars, backend_vars, concurrent_vars>>

NoError == [step |-> "none", error |-> "none"]

Raise(step, error) == [step |-> step, error |-> error]

\* ------------------------------------------------- models and conversions

\* str(repo["id"])
str(x) == ToString(x)

\* Truthy with the test dropped: every fetched repository is forwarded.
TruthyAlways(latest_commit) == TRUE

\* Python truthiness of a commit value: None and the empty string are falsy.
Truthy(latest_commit) == latest_commit \notin {None, ""}

\* Field orders of the pydantic models (declaration order).
SimpleRepositoryFields == <<"id", "name">>

ActiveRepositoriesFields == <<"project_key", "repositories", "vcs_instance_name">>

RepositoryFields ==
    <<"project_key", "repository_id", "repository_name", "repository_url",
      "vcs_instance_name", "latest_commit">>

\* The JSON text of an object: its members in order, each a <<key, value>> pair.
JsonObject(fields, m) == [k \in DOMAIN fields |-> <<fields[k], m[fields[k]]>>]

\* json.loads of the text of a flat object: the mapping from key to value.
json_loads_object(text) ==
    [key \in {text[k][1] : k \in DOMAIN text} |->
        text[CHOOSE k \in DOMAIN text : text[k][1] = key][2]]

\* SimpleRepository(id=..., name=...)
SimpleRepository(id, name) == [id |-> id, name |-> name]

\* ActiveRepositories(...).model_dump_json(): the nested models are dumped
\* in place.
ActiveRepositories_model_dump_json(m) ==
    JsonObject(ActiveRepositoriesFields,
               [m EXCEPT !.repositories =
                   [k \in DOMAIN @ |-> JsonObject(SimpleRepositoryFields, @[k])]])

\* json.loads(body) of an ActiveRepositories dump.
json_loads_active(body) ==
    LET top == json_loads_object(body)
    IN  [top EXCEPT !["repositories"] =
            [k \in DOMAIN @ |-> json_loads_object(@[k])]]

\* Repository.model_dump_json() with the latest commit left out of the dump.
Repository_model_dump_json_without_commit(task) ==
    JsonObject(SubSeq(RepositoryFields, 1, Len(RepositoryFields) - 1), task)

\* The consumer's Repository built from the text of a message argument.
Repository_model_validate_json(text) == json_loads_object(text)

\* Repository.model_dump_json()
Repository_model_dump_json(task) == JsonObject(RepositoryFields, task)

\* vcs_client.export_repository(repository, latest_commit, vcs_instance_name):
\* the task descriptor built from the raw record.
export_repository(repository, latest_commit, vcs_instance) ==
    [project_key |-> repository.project,
     repository_id |-> str(repository.id),
     repository_name |-> repository.name,
     repository_url |-> repository.url,
     vcs_instance_name |-> vcs_instance,
     latest_commit |-> latest_commit]

\* What export_repository can do: it cannot build the descriptor of a
\* record without an id; otherwise it never fails given a commit; given None
\* it is outside its contract and may build the descriptor or raise.
ExportOutcomes(repository, latest_commit) ==
    IF ~HasKey(repository, "id") THEN {"KeyError"}
    ELSE IF latest_commit # None THEN {"ok"}
    ELSE {"ok", "ValidationError"}

\* extract_repository_id_and_name applied to the filtered task list instead
\* of the raw listing.
extract_from_project_tasks(repositories) ==
    [k \in DOMAIN project_tasks |->
        SimpleRepository(project_tasks[k].repository_id,
                         project_tasks[k].repository_name)]

\* extract_repository_id_and_name
extract_repository_id_and_name(repositories) ==
    [k \in DOMAIN repositories |->
        SimpleRepository(str(repositories[k].id), repositories[k].name)]

\* The except clause of the per-repository try block.
CaughtInLoop(error) == error = HTTPError

\* CaughtInReport narrowed to the loop's except clause.
CaughtInReportHTTPErrorOnly(error) == error = HTTPError

\* The except clause of send_repository_id_to_backend.
CaughtInReport(error) == error \in RequestException

\* The exception requests.post / raise_for_status ends with, or None.
PostError(outcome) ==
    CASE outcome = "2xx" -> None
      [] outcome = "non2xx" -> HTTPError
      [] outcome = "no_response" -> "Timeout"
      [] OTHER -> outcome

\* requests.post never returns: the backend does not answer and no timeout
\* bounds the wait.
PostBlocks(outcome) == outcome = "no_response" /\ PostTimeout = None

\* project_tasks.append(task_parameters) replaced by an assignment to the
\* last slot of the list.
ReplaceLastTask(tasks, task) ==
    IF tasks = <<>> THEN <<task>> ELSE [tasks EXCEPT ![Len(tasks)] = task]

\* project_tasks.append(task_parameters) replaced by an insert at the front.
PrependTask(tasks, task) == <<task>> \o tasks

\* project_tasks.append(task_parameters)
AppendTask(tasks, task) == Append(tasks, task)

\* AfterRepository with the report left for after the dispatch: the run goes
\* from the loop straight to sending tasks.
AfterRepositoryDispatchFirst(i, repositories) ==
    IF i < Len(repositories) THEN "PerRepositoryFetch" ELSE "Dispatching"

\* Where the run stands after i of the listed repositories: in the loop, or
\* at the call of send_repository_id_to_backend that follows it.
AfterRepository(i, repositories) ==
    IF i < Len(repositories) THEN "PerRepositoryFetch" ELSE "Reporting"

\* The for loop of extract_project_information walking the listing from its
\* end.
RepositoryAtReversed(repositories, i) == repositories[Len(repositories) - i]

\* "for repository in project_repositories": the record of the iteration
\* that follows i finished ones.
RepositoryAt(repositories, i) == repositories[i + 1]

\* An error the loop does not catch handled by a finally clause that still
\* reports and returns the tasks collected so far.
LoopAbortedStillReports == "Reporting"

\* An error the except clause of the loop does not name leaves
\* extract_project_information and collect_repositories.
LoopAborted == "Failed"

\* send_task called with a second named argument next to "repository".
send_task_kwargs_with_project(task) ==
    [repository |-> Repository_model_dump_json(task),
     project_key |-> task.project_key]

\* kwargs={"repository": task.model_dump_json()}
send_task_kwargs(task) == [repository |-> Repository_model_dump_json(task)]

\* Where the run stands after extract_project_information returned and j
\* tasks were sent: in the loop of send_tasks_to_celery_queue, or done.
AfterTask(j, tasks) ==
    IF j < Len(tasks) THEN "Dispatching" ELSE "Done"

\* ------------------------------------------------------------------- Init

NoRequest == [method |-> "none"]

NoResponse == [status_code |-> 0]

\* No concurrent runs.
ConcurrentIdle ==
    /\ runs = <<>>
    /\ queue_calls = <<>>
    /\ report_calls = <<>>

\* The backend with an empty store and no request made.
BackendIdle ==
    /\ db_repositories = <<>>
    /\ db_related = {}
    /\ request = NoRequest
    /\ crud_calls = <<>>
    /\ response = NoResponse

Init ==
    /\ pc = "Started"
    /\ project_key \in ProjectKeys
    /\ vcs_instance_name \in VcsInstanceNames
    /\ vcs_repos \in Listings(project_key)
    /\ repos_calls = <<>>
    /\ project_repositories = <<>>
    /\ idx = 0
    /\ project_tasks = <<>>
    /\ commit_calls = <<>>
    /\ export_calls = <<>>
    /\ posts = <<>>
    /\ task_idx = 0
    /\ send_calls = <<>>
    /\ raised = NoError
    /\ BackendIdle
    /\ ConcurrentIdle

\* The same, for a VCS whose listing may hold a record without an id.
InitAnyRecord ==
    /\ pc = "Started"
    /\ project_key \in ProjectKeys
    /\ vcs_instance_name \in VcsInstanceNames
    /\ vcs_repos \in ListingsAnyRecord(project_key)
    /\ repos_calls = <<>>
    /\ project_repositories = <<>>
    /\ idx = 0
    /\ project_tasks = <<>>
    /\ commit_calls = <<>>
    /\ export_calls = <<>>
    /\ posts = <<>>
    /\ task_idx = 0
    /\ send_calls = <<>>
    /\ raised = NoError
    /\ BackendIdle
    /\ ConcurrentIdle

\* ---------------------------------------------------------------- actions

\* CollectRepositories with a connector built whatever the instance name
\* or provider type is (a lookup with a default instead of the subscript).
CollectRepositoriesDefaultClient ==
    /\ pc = "Started"
    /\ pc' = "Listing"
    /\ UNCHANGED <<project_key, vcs_instance_name, vcs_repos, repos_calls,
                   project_repositories, idx, project_tasks, commit_calls,
                   export_calls, posts, task_idx, send_calls, raised>>
    /\ UNCHANGED <<backend_vars, concurrent_vars>>

\* collect_repositories, up to the call of extract_project_information:
\* vcs_instances_map[vcs_instance_name] raises KeyError for an unknown name,
\* and the factory raises for a provider type it has no connector for.
CollectRepositories ==
    /\ pc = "Started"
    /\ IF vcs_instance_name \notin VcsInstancesMap
       THEN /\ pc' = "Failed"
            /\ raised' = Raise("vcs_instances_map", "KeyError")
       ELSE IF ProviderType(vcs_instance_name) \notin SupportedProviders
       THEN /\ pc' = "Failed"
            /\ raised' = Raise("create_client_from_vcs_instance",
                               "UnsupportedProvider")
       ELSE /\ pc' = "Listing"
            /\ raised' = raised
    /\ UNCHANGED <<project_key, vcs_instance_name, vcs_repos, repos_calls,
                   project_repositories, idx, project_tasks, commit_calls,
                   export_calls, posts, task_idx, send_calls>>
    /\ UNCHANGED <<backend_vars, concurrent_vars>>

\* vcs_client.get_repos(project_key) returns the listing.
GetRepos ==
    /\ pc = "Listing"
    /\ repos_calls' = Append(repos_calls,
           [project_key |-> project_key, outcome |-> "ok"])
    /\ project_repositories' = vcs_repos
    /\ project_tasks' = <<>>
    /\ idx' = 0
    /\ pc' = AfterRepository(0, vcs_repos)
    /\ UNCHANGED <<project_key, vcs_instance_name, vcs_repos, commit_calls,
                   export_calls, posts, task_idx, send_calls, raised>>
    /\ UNCHANGED <<backend_vars, concurrent_vars>>

\* GetReposFails with the error caught and logged: the run goes on with an
\* empty listing.
GetReposFailsSwallowed ==
    /\ pc = "Listing"
    /\ \E error \in ListingErrors :
          repos_calls' = Append(repos_calls,
              [project_key |-> project_key, outcome |-> error])
    /\ project_repositories' = <<>>
    /\ pc' = "Reporting"
    /\ UNCHANGED <<project_key, vcs_instance_name, vcs_repos, idx,
                   project_tasks, commit_calls, export_calls, posts, task_idx,
                   send_calls, raised>>
    /\ UNCHANGED <<backend_vars, concurrent_vars>>

\* vcs_client.get_repos(project_key) raises: nothing catches it.
GetReposFails ==
    /\ pc = "Listing"
    /\ \E error \in ListingErrors :
          /\ repos_calls' = Append(repos_calls,
                 [project_key |-> project_key, outcome |-> error])
          /\ raised' = Raise("get_repos", error)
    /\ pc' = "Failed"
    /\ UNCHANGED <<project_key, vcs_instance_name, vcs_repos,
                   project_repositories, idx, project_tasks, commit_calls,
                   export_calls, posts, task_idx, send_calls>>
    /\ UNCHANGED <<backend_vars, concurrent_vars>>

\* One iteration of the for loop of extract_project_information.
ProcessRepository ==
    /\ pc = "PerRepositoryFetch"
    /\ idx < Len(project_repositories)
    /\ LET repository == RepositoryAt(project_repositories, idx)
       IN  \E outcome \in CommitOutcomes :
             /\ commit_calls' = Append(commit_calls,
                    [project_key |-> project_key,
                     repository_id |-> repository.name,
                     outcome |-> outcome])
             /\ IF outcome \in RequestException
                THEN \* get_latest_commit raised
                     /\ export_calls' = export_calls
                     /\ project_tasks' = project_tasks
                     /\ IF CaughtInLoop(outcome)
                        THEN /\ idx' = idx + 1
                             /\ pc' = AfterRepository(idx + 1, project_repositories)
                             /\ raised' = raised
                        ELSE /\ idx' = idx
                             /\ pc' = LoopAborted
                             /\ raised' = Raise("get_latest_commit", outcome)
                ELSE \* get_latest_commit returned; export_repository is called
                     \E exported \in ExportOutcomes(repository, outcome) :
                       /\ export_calls' = Append(export_calls,
                              [repository |-> repository,
                               latest_commit |-> outcome,
                               outcome |-> exported])
                       /\ IF exported = "ok"
                          THEN /\ project_tasks' =
                                    IF Truthy(outcome)
                                    THEN AppendTask(project_tasks,
                                             export_repository(repository, outcome,
                                                               vcs_instance_name))
                                    ELSE project_tasks
                               /\ idx' = idx + 1
                               /\ pc' = AfterRepository(idx + 1, project_repositories)
                               /\ raised' = raised
                          ELSE /\ project_tasks' = project_tasks
                               /\ idx' = idx
                               /\ pc' = LoopAborted
                               /\ raised' = Raise("export_repository", exported)
    /\ UNCHANGED <<project_key, vcs_instance_name, vcs_repos, repos_calls,
                   project_repositories, posts, task_idx, send_calls>>
    /\ UNCHANGED <<backend_vars, concurrent_vars>>

\* send_repository_id_to_backend(extract_repository_id_and_name(...), ...),
\* then the return of project_tasks to collect_repositories.  The argument
\* (the projection, repo["id"] of every record) and the body are evaluated
\* outside the try block; requests.post and raise_for_status inside it.
SendRepositoryIdToBackend ==
    /\ pc = "Reporting"
    /\ IF \E k \in DOMAIN project_repositories :
              ~HasKey(project_repositories[k], "id")
       THEN /\ posts' = posts
            /\ pc' = "Failed"
            /\ raised' = Raise("extract_repository_id_and_name", "KeyError")
       ELSE LET body == ActiveRepositories_model_dump_json(
                            [project_key |-> project_key,
                             repositories |->
                                 extract_repository_id_and_name(project_repositories),
                             vcs_instance_name |-> vcs_instance_name])
            IN  \E outcome \in PostOutcomes :
                  /\ posts' = Append(posts,
                         [url |-> "/resc/v1/repositories/active",
                          json |-> json_loads_active(body),
                          outcome |-> outcome])
                  /\ IF PostBlocks(outcome)
                     THEN /\ pc' = "Blocked"
                          /\ raised' = raised
                     ELSE IF PostError(outcome) = None
                             \/ CaughtInReport(PostError(outcome))
                     THEN /\ pc' = AfterTask(0, project_tasks)
                          /\ raised' = raised
                     ELSE /\ pc' = "Failed"
                          /\ raised' = Raise("post", PostError(outcome))
    /\ task_idx' = 0
    /\ UNCHANGED <<project_key, vcs_instance_name, vcs_repos, repos_calls,
                   project_repositories, idx, project_tasks, commit_calls,
                   export_calls, send_calls>>
    /\ UNCHANGED <<backend_vars, concurrent_vars>>

\* One iteration of the for loop of send_tasks_to_celery_queue: one
\* celery_client.send_task call; nothing catches what it raises.
SendTask ==
    /\ pc = "Dispatching"
    /\ task_idx < Len(project_tasks)
    /\ LET task == project_tasks[task_idx + 1]
       IN  \E outcome \in SendOutcomes :
             /\ send_calls' = Append(send_calls,
                    [task_name |-> SECRET_SCANNER_TASK_NAME,
                     kwargs |-> send_task_kwargs(task),
                     queue |-> REPOSITORY_QUEUE,
                     outcome |-> outcome])
             /\ IF outcome = "ok"
                THEN /\ task_idx' = task_idx + 1
                     /\ pc' = AfterTask(task_idx + 1, project_tasks)
                     /\ raised' = raised
                ELSE /\ task_idx' = task_idx
                     /\ pc' = "Failed"
                     /\ raised' = Raise("send_task", outcome)
    /\ UNCHANGED <<project_key, vcs_instance_name, vcs_repos, repos_calls,
                   project_repositories, idx, project_tasks, commit_calls,
                   export_calls, posts>>
    /\ UNCHANGED <<backend_vars, concurrent_vars>>

Next ==
    \/ CollectRepositories
    \/ GetRepos
    \/ GetReposFails
    \/ ProcessRepository
    \/ SendRepositoryIdToBackend
    \/ SendTask

Spec == Init /\ [][Next]_vars

SpecAnyRecord == InitAnyRecord /\ [][Next]_vars

\* ------------------------------------- the backend's repository endpoints
\* (resc_backend.resc_web_service.endpoints.repositories, as its tests and
\* section 6 of the specification describe it.)  One action answers one
\* request: crud_calls is the log of the crud.repository calls made for it.

DbIds == 1..MaxDbRepos

RepositoryNames == {"repository_name_1", "updated_name"}

\* The required fields of RepositoryCreate, in declaration order.
RequiredFields ==
    <<"project_key", "repository_id", "repository_name", "repository_url",
      "vcs_instance">>

RequiredFieldSet == {RequiredFields[k] : k \in DOMAIN RequiredFields}

\* A request body: none, or a JSON object holding the fields in present.
RequestBodies ==
    {[given |-> FALSE, present |-> {}, repository_name |-> "repository_name_1"],
     [given |-> TRUE, present |-> {}, repository_name |-> "repository_name_1"],
     [given |-> TRUE, present |-> RequiredFieldSet \ {"vcs_instance"},
      repository_name |-> "updated_name"]}
    \cup {[given |-> TRUE, present |-> RequiredFieldSet, repository_name |-> n] :
             n \in RepositoryNames}

\* The skip and limit query parameters a listing request may carry.
Skips == -1..1

Limits == -1..MaxDbRepos

\* A stored repository.
DBrepository(id, name) ==
    [id_ |-> id,
     project_key |-> "project_key_1",
     repository_id |-> "repository_id_1",
     repository_name |-> name,
     repository_url |-> "http://fake.repo.com",
     vcs_instance |-> 1]

\* The stores the backend can hold.
Stores ==
    UNION {{[i \in S |-> DBrepository(i, f[i])] : f \in [S -> RepositoryNames]} :
              S \in SUBSET DbIds}

\* Body validation that accepts everything.
ValidationErrorsNone(body) == <<>>

\* Validation of a RepositoryCreate body: the 422 detail, empty for a valid
\* body.
ValidationErrors(body) ==
    IF ~body.given
    THEN <<[loc |-> <<"body">>, msg |-> "field required"]>>
    ELSE LET missing == SelectSeq(RequiredFields, LAMBDA f : f \notin body.present)
         IN  [k \in DOMAIN missing |->
                 [loc |-> <<"body", missing[k]>>, msg |-> "field required"]]

\* Query validation that checks the limit only.
QueryErrorsLimitOnly(skip, limit) ==
    IF limit < 1
    THEN <<[loc |-> <<"query", "limit">>,
            msg |-> "ensure this value is greater than or equal to 1"]>>
    ELSE <<>>

\* Validation of the pagination parameters: skip >= 0, limit >= 1.
QueryErrors(skip, limit) ==
    (IF skip < 0
     THEN <<[loc |-> <<"query", "skip">>,
             msg |-> "ensure this value is greater than or equal to 0"]>>
     ELSE <<>>)
    \o
    (IF limit < 1
     THEN <<[loc |-> <<"query", "limit">>,
             msg |-> "ensure this value is greater than or equal to 1"]>>
     ELSE <<>>)

\* The existence check skipped: every id is taken to exist.
FoundAlways(db_repository) == TRUE

\* "if not db_repository": whether crud.get_repository found the repository.
Found(db_repository) == db_repository.id_ # 0

\* What crud.get_repository returns: the stored repository, or none (id_ 0).
get_repository(repository_id) ==
    IF repository_id \in DOMAIN db_repositories
    THEN db_repositories[repository_id]
    ELSE DBrepository(0, "none")

\* The delete endpoint keeping the related rows.
delete_related_off == FALSE

\* The delete_related argument the delete endpoint passes.
delete_related == TRUE

\* The stored repositories in id order.
StoredInOrder ==
    LET ids == SelectSeq([i \in DbIds |-> i],
                         LAMBDA i : i \in DOMAIN db_repositories)
    IN  [k \in DOMAIN ids |-> db_repositories[ids[k]]]

Min(a, b) == IF a < b THEN a ELSE b

\* A database that holds repositories, some with related rows, and no
\* request made; the collector is not running.
BackendInit ==
    /\ pc = "Started"
    /\ project_key = "P1"
    /\ vcs_instance_name = "bitbucket_srv"
    /\ vcs_repos = <<>>
    /\ repos_calls = <<>>
    /\ project_repositories = <<>>
    /\ idx = 0
    /\ project_tasks = <<>>
    /\ commit_calls = <<>>
    /\ export_calls = <<>>
    /\ posts = <<>>
    /\ task_idx = 0
    /\ send_calls = <<>>
    /\ raised = NoError
    /\ db_repositories \in Stores
    /\ db_related \in SUBSET (DOMAIN db_repositories)
    /\ request = NoRequest
    /\ crud_calls = <<>>
    /\ response = NoResponse
    /\ ConcurrentIdle

NotFound == [status_code |-> 404, detail |-> "Repository not found"]

\* GET /repositories/{repository_id}
ReadRepository ==
    /\ \E id \in DbIds :
          LET db_repository == get_repository(id)
          IN  /\ request' = [method |-> "GET", repository_id |-> id]
              /\ crud_calls' = <<[fn |-> "get_repository", repository_id |-> id]>>
              /\ response' = IF Found(db_repository)
                             THEN [status_code |-> 200, json |-> db_repository]
                             ELSE NotFound
    /\ UNCHANGED <<db_repositories, db_related>>
    /\ UNCHANGED <<collector_vars, concurrent_vars>>

\* PUT /repositories/{repository_id}
UpdateRepository ==
    /\ \E id \in DbIds, body \in RequestBodies :
          LET errors == ValidationErrors(body)
              db_repository == get_repository(id)
              updated == DBrepository(id, body.repository_name)
          IN  /\ request' = [method |-> "PUT", repository_id |-> id, body |-> body]
              /\ IF errors # <<>>
                 THEN /\ crud_calls' = <<>>
                      /\ response' = [status_code |-> 422, detail |-> errors]
                      /\ db_repositories' = db_repositories
                 ELSE IF ~Found(db_repository)
                 THEN /\ crud_calls' =
                           <<[fn |-> "get_repository", repository_id |-> id]>>
                      /\ response' = NotFound
                      /\ db_repositories' = db_repositories
                 ELSE /\ crud_calls' =
                           <<[fn |-> "get_repository", repository_id |-> id],
                             [fn |-> "update_repository", repository_id |-> id]>>
                      /\ response' = [status_code |-> 200, json |-> updated]
                      /\ db_repositories' =
                           [i \in DOMAIN db_repositories \cup {id} |->
                               IF i = id THEN updated ELSE db_repositories[i]]
    /\ UNCHANGED db_related
    /\ UNCHANGED <<collector_vars, concurrent_vars>>

\* DELETE /repositories/{repository_id}
DeleteRepository ==
    /\ \E id \in DbIds :
          LET db_repository == get_repository(id)
          IN  /\ request' = [method |-> "DELETE", repository_id |-> id]
              /\ IF ~Found(db_repository)
                 THEN /\ crud_calls' =
                           <<[fn |-> "get_repository", repository_id |-> id]>>
                      /\ response' = NotFound
                      /\ UNCHANGED <<db_repositories, db_related>>
                 ELSE /\ crud_calls' =
                           <<[fn |-> "get_repository", repository_id |-> id],
                             [fn |-> "delete_repository", repository_id |-> id,
                              delete_related |-> delete_related]>>
                      /\ response' = [status_code |-> 200, json |-> db_repository]
                      /\ db_repositories' =
                           [i \in DOMAIN db_repositories \ {id} |-> db_repositories[i]]
                      /\ db_related' =
                           IF delete_related THEN db_related \ {id} ELSE db_related
    /\ UNCHANGED <<collector_vars, concurrent_vars>>

\* GET /repositories?skip=..&limit=..
GetAllRepositories ==
    /\ \E skip \in Skips, limit \in Limits :
          LET errors == QueryErrors(skip, limit)
              stored == StoredInOrder
          IN  /\ request' = [method |-> "LIST", skip |-> skip, limit |-> limit]
              /\ IF errors # <<>>
                 THEN /\ crud_calls' = <<>>
                      /\ response' = [status_code |-> 422, detail |-> errors]
                 ELSE /\ crud_calls' =
                           <<[fn |-> "get_repositories", skip |-> skip, limit |-> limit],
                             [fn |-> "get_repositories_count"]>>
                      /\ response' =
                           [status_code |-> 200,
                            data |-> SubSeq(stored, skip + 1,
                                            Min(skip + limit, Len(stored))),
                            total |-> Len(stored),
                            limit |-> limit,
                            skip |-> skip]
    /\ UNCHANGED <<db_repositories, db_related>>
    /\ UNCHANGED <<collector_vars, concurrent_vars>>

\* POST /repositories: creates the repository unless the store holds it.
CreateRepository ==
    /\ \E body \in RequestBodies :
          LET errors == ValidationErrors(body)
              same == {i \in DOMAIN db_repositories :
                          db_repositories[i].repository_name = body.repository_name}
              free == DbIds \ DOMAIN db_repositories
              id == IF same # {} THEN CHOOSE i \in same : \A j \in same : i <= j
                    ELSE CHOOSE i \in free : \A j \in free : i <= j
          IN  /\ request' = [method |-> "POST", body |-> body]
              /\ IF errors # <<>>
                 THEN /\ crud_calls' = <<>>
                      /\ response' = [status_code |-> 422, detail |-> errors]
                      /\ db_repositories' = db_repositories
                 ELSE /\ same # {} \/ free # {}
                      /\ crud_calls' = <<[fn |-> "create_repository_if_not_exists"]>>
                      /\ response' =
                           [status_code |-> 201,
                            json |-> DBrepository(id, body.repository_name)]
                      /\ db_repositories' =
                           [i \in DOMAIN db_repositories \cup {id} |->
                               IF i = id THEN DBrepository(id, body.repository_name)
                               ELSE db_repositories[i]]
    /\ UNCHANGED db_related
    /\ UNCHANGED <<collector_vars, concurrent_vars>>

BackendNext ==
    \/ ReadRepository
    \/ UpdateRepository
    \/ DeleteRepository
    \/ GetAllRepositories
    \/ CreateRepository

BackendSpec == BackendInit /\ [][BackendNext]_vars

\* ------------------------------------------- two runs in one worker
\* Two collect_repositories tasks executing in the same worker process.
\* Each has its own arguments and locals; the module-level celery_client
\* and the backend are what they share.  A step is a step of one of them.

RunIds == {1, 2}

\* The instance names a connector can be built for.
ConnectableInstances ==
    {name \in VcsInstancesMap : ProviderType(name) \in SupportedProviders}

\* The listing of n repositories of project pk.
FirstRecords(n, pk) == [k \in 1..n |-> RawRecord(k, pk)]

\* A run that has just been called.
NewRun(pk, instance, listing) ==
    [pc |-> "Started",
     project_key |-> pk,
     vcs_instance_name |-> instance,
     vcs_repos |-> listing,
     project_repositories |-> <<>>,
     idx |-> 0,
     fetched |-> <<>>,
     project_tasks |-> <<>>,
     task_idx |-> 0]

\* The collector and the backend of the single-run specifications at rest.
CollectorIdle ==
    /\ pc = "Started"
    /\ project_key = "P1"
    /\ vcs_instance_name = "bitbucket_srv"
    /\ vcs_repos = <<>>
    /\ repos_calls = <<>>
    /\ project_repositories = <<>>
    /\ idx = 0
    /\ project_tasks = <<>>
    /\ commit_calls = <<>>
    /\ export_calls = <<>>
    /\ posts = <<>>
    /\ task_idx = 0
    /\ send_calls = <<>>
    /\ raised = NoError

\* Run 1 is for ("P1", "bitbucket_srv"); run 2 is for any pair, the same one
\* included.  Each observes a listing of its project.
ConcurrentInit ==
    /\ CollectorIdle
    /\ BackendIdle
    /\ \E pk \in ProjectKeys, instance \in ConnectableInstances,
          n1 \in 1..MaxRunRepos, n2 \in 1..MaxRunRepos :
          runs = [r \in RunIds |->
                     IF r = 1
                     THEN NewRun("P1", "bitbucket_srv", FirstRecords(n1, "P1"))
                     ELSE NewRun(pk, instance, FirstRecords(n2, pk))]
    /\ queue_calls = <<>>
    /\ report_calls = <<>>

\* The list send_tasks_to_celery_queue of a run walks, were project_tasks a
\* module-level list all runs append to.
TasksOfAllRuns(r) == runs[1].project_tasks \o runs[2].project_tasks

\* The list send_tasks_to_celery_queue of run r walks: the local
\* project_tasks its extract_project_information returned.
TasksOfRun(r) == runs[r].project_tasks

\* The test of latest_commit extended by a look at what was enqueued before:
\* a commit already sent for the repository is not forwarded again.
ForwardIfNotSeen(r, repository, latest_commit) ==
    /\ Truthy(latest_commit)
    /\ ~\E k \in DOMAIN queue_calls :
           queue_calls[k].kwargs.repository =
               Repository_model_dump_json(
                   export_repository(repository, latest_commit,
                                     runs[r].vcs_instance_name))

\* "if latest_commit:" in run r.
Forward(r, repository, latest_commit) == Truthy(latest_commit)

\* collect_repositories of run r, up to the call of
\* extract_project_information.
RunCollectRepositories(r) ==
    /\ runs[r].pc = "Started"
    /\ runs' = [runs EXCEPT ![r].pc =
                   IF runs[r].vcs_instance_name \in ConnectableInstances
                   THEN "Listing" ELSE "Failed"]
    /\ UNCHANGED <<queue_calls, report_calls>>
    /\ UNCHANGED <<collector_vars, backend_vars>>

\* get_repos of run r returns the listing.
RunGetRepos(r) ==
    /\ runs[r].pc = "Listing"
    /\ runs' = [runs EXCEPT
                   ![r].project_repositories = runs[r].vcs_repos,
                   ![r].project_tasks = <<>>,
                   ![r].pc = AfterRepository(0, runs[r].vcs_repos)]
    /\ UNCHANGED <<queue_calls, report_calls>>
    /\ UNCHANGED <<collector_vars, backend_vars>>

\* get_repos of run r raises.
RunGetReposFails(r) ==
    /\ runs[r].pc = "Listing"
    /\ runs' = [runs EXCEPT ![r].pc = "Failed"]
    /\ UNCHANGED <<queue_calls, report_calls>>
    /\ UNCHANGED <<collector_vars, backend_vars>>

\* One iteration of the for loop of extract_project_information in run r.
RunProcessRepository(r) ==
    /\ runs[r].pc = "PerRepositoryFetch"
    /\ runs[r].idx < Len(runs[r].project_repositories)
    /\ LET run == runs[r]
           repository == RepositoryAt(run.project_repositories, run.idx)
       IN  \E outcome \in CommitOutcomes :
             LET fetched == [run EXCEPT !.fetched = Append(run.fetched, outcome)]
                 next == [fetched EXCEPT
                             !.idx = run.idx + 1,
                             !.pc = AfterRepository(run.idx + 1,
                                                    run.project_repositories)]
             IN  IF outcome \in RequestException
                 THEN runs' = [runs EXCEPT ![r] =
                                  IF CaughtInLoop(outcome) THEN next
                                  ELSE [fetched EXCEPT !.pc = LoopAborted]]
                 ELSE \E exported \in ExportOutcomes(repository, outcome) :
                        runs' = [runs EXCEPT ![r] =
                            IF exported # "ok"
                            THEN [fetched EXCEPT !.pc = LoopAborted]
                            ELSE IF Forward(r, repository, outcome)
                            THEN [next EXCEPT !.project_tasks =
                                     AppendTask(run.project_tasks,
                                         export_repository(repository, outcome,
                                             run.vcs_instance_name))]
                            ELSE next]
    /\ UNCHANGED <<queue_calls, report_calls>>
    /\ UNCHANGED <<collector_vars, backend_vars>>

\* send_repository_id_to_backend of run r, then the return of project_tasks
\* to collect_repositories.
RunSendRepositoryIdToBackend(r) ==
    /\ runs[r].pc = "Reporting"
    /\ LET run == runs[r]
           body == ActiveRepositories_model_dump_json(
                       [project_key |-> run.project_key,
                        repositories |->
                            extract_repository_id_and_name(run.project_repositories),
                        vcs_instance_name |-> run.vcs_instance_name])
       IN  \E outcome \in PostOutcomes :
             /\ report_calls' = Append(report_calls,
                    [run |-> r,
                     url |-> "/resc/v1/repositories/active",
                     json |-> json_loads_active(body)])
             /\ runs' = [runs EXCEPT
                   ![r].task_idx = 0,
                   ![r].pc =
                       IF PostBlocks(outcome) THEN "Blocked"
                       ELSE IF PostError(outcome) = None
                               \/ CaughtInReport(PostError(outcome))
                       THEN AfterTask(0, TasksOfRun(r))
                       ELSE "Failed"]
    /\ UNCHANGED queue_calls
    /\ UNCHANGED <<collector_vars, backend_vars>>

\* One iteration of the for loop of send_tasks_to_celery_queue in run r,
\* through the celery_client the runs share.
RunSendTask(r) ==
    /\ runs[r].pc = "Dispatching"
    /\ runs[r].task_idx < Len(TasksOfRun(r))
    /\ LET task == TasksOfRun(r)[runs[r].task_idx + 1]
       IN  \E outcome \in SendOutcomes :
             /\ queue_calls' = Append(queue_calls,
                    [run |-> r,
                     task_name |-> SECRET_SCANNER_TASK_NAME,
                     kwargs |-> send_task_kwargs(task),
                     queue |-> REPOSITORY_QUEUE,
                     outcome |-> outcome])
             /\ runs' = [runs EXCEPT ![r] =
                   IF outcome = "ok"
                   THEN [runs[r] EXCEPT
                            !.task_idx = runs[r].task_idx + 1,
                            !.pc = AfterTask(runs[r].task_idx + 1, TasksOfRun(r))]
                   ELSE [runs[r] EXCEPT !.pc = "Failed"]]
    /\ UNCHANGED report_calls
    /\ UNCHANGED <<collector_vars, backend_vars>>

ConcurrentNext ==
    \E r \in RunIds :
        \/ RunCollectRepositories(r)
        \/ RunGetRepos(r)
        \/ RunGetReposFails(r)
        \/ RunProcessRepository(r)
        \/ RunSendRepositoryIdToBackend(r)
        \/ RunSendTask(r)

ConcurrentSpec == ConcurrentInit /\ [][ConcurrentNext]_vars

\* ----------------------------------------------------- reading the logs

\* The value of member key in the JSON text of an object, as the consumer of
\* a message reads it.
Member(text, key) == text[CHOOSE k \in DOMAIN text : text[k][1] = key][2]

\* The id of the repository at listing position i as the models carry it,
\* None for a record without one.
RepoId(i) ==
    IF HasKey(vcs_repos[i], "id") THEN ToString(vcs_repos[i].id) ELSE None

\* The messages the broker accepted, in order.
Published == SelectSeq(send_calls, LAMBDA c : c.outcome = "ok")

\* The published messages that reference the repository at listing position
\* i and the run's vcs instance.
MessagesFor(i) ==
    {k \in DOMAIN Published :
        /\ Member(Published[k].kwargs.repository, "repository_id") = RepoId(i)
        /\ Member(Published[k].kwargs.repository, "vcs_instance_name")
              = vcs_instance_name}

\* The fetch for listing position i has been made (the loop is sequential:
\* call i is for position i).
Fetched(i) == i \in DOMAIN commit_calls

GotCommit(i) == Fetched(i) /\ commit_calls[i].outcome \in Commits

GotNone(i) == Fetched(i) /\ commit_calls[i].outcome = None

GotError(i) == Fetched(i) /\ commit_calls[i].outcome \in RequestException

\* The descriptors in project_tasks built for listing position i.
TasksFor(i) ==
    {k \in DOMAIN project_tasks :
        project_tasks[k].repository_id = RepoId(i)}

ListingSucceeded == repos_calls # <<>> /\ repos_calls[1].outcome = "ok"

ListingFailed == repos_calls # <<>> /\ repos_calls[1].outcome \in ListingErrors

\* ----------------------------------------------------------------- claims

\* C1: in a run whose listing succeeded and that ran to completion, exactly
\* one message is published for every listed repository whose commit fetch
\* returned a commit, carrying its id and the run's vcs_instance_name, and no
\* message is published for any other repository.
C1_OneMessagePerRepositoryWithCommit ==
    pc = "Done" =>
        /\ \A i \in DOMAIN vcs_repos :
              Cardinality(MessagesFor(i)) = IF GotCommit(i) THEN 1 ELSE 0
        /\ \A k \in DOMAIN Published :
              \E i \in DOMAIN vcs_repos : GotCommit(i) /\ k \in MessagesFor(i)

\* The scenario {A: commit, B: no commits, C: commit}: two messages.
C1_Witness ==
    /\ pc = "Done"
    /\ Len(vcs_repos) >= 3
    /\ GotCommit(1) /\ GotNone(2) /\ GotCommit(3)
    /\ Len(Published) = 2

\* C2: if the commit fetch of a listed repository R raises a transport error,
\* no task is produced for R, the loop goes on to the repositories after R,
\* and the run is not aborted by it.
C2_TransportErrorSkipsOnlyThatRepository ==
    \A i \in DOMAIN commit_calls :
        GotError(i) =>
            /\ TasksFor(i) = {}
            /\ idx >= i
            /\ ~(pc = "Failed" /\ raised.step = "get_latest_commit")

\* C3: every report sent carries the run's project key and vcs instance name
\* and one (id, name) entry per listed record, in listing order, whatever the
\* per-repository outcomes were.
C3_ReportListsEveryListedRepository ==
    \A p \in DOMAIN posts :
        /\ posts[p].json.project_key = project_key
        /\ posts[p].json.vcs_instance_name = vcs_instance_name
        /\ Len(posts[p].json.repositories) = Len(vcs_repos)
        /\ \A i \in DOMAIN vcs_repos :
              /\ posts[p].json.repositories[i].id = ToString(vcs_repos[i].id)
              /\ posts[p].json.repositories[i].name = vcs_repos[i].name

\* A report sent after one repository produced a task, one had no commits
\* and one failed its fetch.
C3_Witness ==
    /\ posts # <<>>
    /\ \E i, j, k \in DOMAIN vcs_repos : GotCommit(i) /\ GotNone(j) /\ GotError(k)

\* C4: a run whose listing succeeded has sent exactly one report when it
\* ends, however many fetches failed and however many tasks were produced.
\* (Stated for the runs in which export_repository did not raise; the claim
\* covers those runs among others.)
C4_ExactlyOneReportPerListedRun ==
    (/\ ListingSucceeded
     /\ pc \in {"Done", "Failed"}
     /\ raised.step # "export_repository") => Len(posts) = 1

\* C5: if the listing call fails the run ends Failed with that error
\* surfaced, and no commit fetch, export, report or enqueue is performed.
C5_ListingFailureHasNoSideEffects ==
    ListingFailed =>
        /\ pc = "Failed"
        /\ raised = Raise("get_repos", repos_calls[1].outcome)
        /\ Len(repos_calls) = 1
        /\ commit_calls = <<>>
        /\ export_calls = <<>>
        /\ posts = <<>>
        /\ send_calls = <<>>

\* The listing of a project that holds repositories failed.
C5_Witness == ListingFailed /\ Len(vcs_repos) >= 2

\* C6: a failed delivery of the report (non-2xx, connection error, timeout)
\* is swallowed: it does not leave the run as an exception, the run goes on
\* to dispatch, and the tasks built and the messages published are those
\* the commit fetches determine, as after a delivered report.
C6_ReportFailureIsSwallowed ==
    \A p \in DOMAIN posts :
        posts[p].outcome \in {"non2xx", "ConnectionError", "Timeout"} =>
            /\ raised.step # "post"
            /\ pc \in {"Dispatching", "Done", "Failed"}
            /\ \A i \in DOMAIN vcs_repos :
                  Cardinality(TasksFor(i)) = IF GotCommit(i) THEN 1 ELSE 0
            /\ pc = "Done" =>
                  \A i \in DOMAIN vcs_repos :
                      Cardinality(MessagesFor(i)) = IF GotCommit(i) THEN 1 ELSE 0

\* A run that completed and published its tasks after the report met a
\* connection error.
C6_Witness ==
    /\ pc = "Done"
    /\ Len(posts) = 1
    /\ posts[1].outcome = "ConnectionError"
    /\ Len(Published) >= 2

\* C7: a failed enqueue does not abort the run and does not keep the
\* dispatcher from attempting the tasks after it.
C7_EnqueueFailureDoesNotStopDispatch ==
    \A k \in DOMAIN send_calls :
        send_calls[k].outcome # "ok" =>
            /\ ~(pc = "Failed" /\ raised.step = "send_task")
            /\ pc \in {"Dispatching", "Done"}
            /\ pc = "Done" => Len(send_calls) = Len(project_tasks)

\* C8: once the listing has succeeded the run never ends Failed.  (Stated
\* for the runs in which export_repository did not raise; the claim covers
\* those runs among others.)
C8_ListedRunNeverFails ==
    (ListingSucceeded /\ raised.step # "export_repository") => pc # "Failed"

\* C9: the report is sent after the last commit fetch and before the first
\* enqueue: no report while repositories remain to be fetched, and no
\* send_task before the one report.
C9_ReportAfterFetchesBeforeDispatch ==
    /\ posts # <<>> =>
          /\ idx = Len(project_repositories)
          /\ Len(commit_calls) = Len(vcs_repos)
    /\ pc = "PerRepositoryFetch" => posts = <<>> /\ send_calls = <<>>
    /\ pc = "Reporting" => posts = <<>> /\ send_calls = <<>>
    /\ pc = "Dispatching" => Len(posts) = 1
    /\ send_calls # <<>> => Len(posts) = 1

\* A completed run with several fetches, the report and several enqueues.
C9_Witness ==
    /\ pc = "Done"
    /\ Len(commit_calls) >= 3
    /\ Len(posts) = 1
    /\ Len(send_calls) >= 2

\* C10: a repository whose commit fetch returns None produces no task, the
\* run goes on past it, and the report, once sent, lists it.
C10_EmptyRepositoryIsSkippedAndReported ==
    \A i \in DOMAIN commit_calls :
        GotNone(i) =>
            /\ TasksFor(i) = {}
            /\ idx >= i
            /\ ~(pc = "Failed" /\ raised.step = "export_repository")
            /\ \A p \in DOMAIN posts :
                  \E k \in DOMAIN posts[p].json.repositories :
                      posts[p].json.repositories[k].id = RepoId(i)

\* C11: a Timeout or ConnectionError raised by the commit fetch of a listed
\* repository is handled like any other transport error of that fetch: no
\* task for the repository, the loop goes on past it, and the run is not
\* ended by it.
C11_TimeoutHandledLikeTransportError ==
    \A i \in DOMAIN commit_calls :
        commit_calls[i].outcome \in {"Timeout", "ConnectionError"} =>
            /\ TasksFor(i) = {}
            /\ idx >= i
            /\ raised # Raise("get_latest_commit", commit_calls[i].outcome)

\* C12: every run terminates: the run is never stuck short of Done or
\* Failed, also when the backend never answers the report POST.
C12_EveryRunTerminates ==
    pc \in {"Done", "Failed"} \/ ENABLED Next

\* A connector can be built for the run: the instance is configured and its
\* provider type has a connector variant.
ConnectorObtainable ==
    /\ vcs_instance_name \in VcsInstancesMap
    /\ ProviderType(vcs_instance_name) \in SupportedProviders

\* C13: a run for which no connector can be obtained fails before any side
\* effect: it never lists, fetches, exports, reports or enqueues.
C13_NoConnectorNoSideEffects ==
    ~ConnectorObtainable =>
        /\ pc \in {"Started", "Failed"}
        /\ pc = "Failed" =>
              raised \in {Raise("vcs_instances_map", "KeyError"),
                          Raise("create_client_from_vcs_instance",
                                "UnsupportedProvider")}
        /\ repos_calls = <<>>
        /\ commit_calls = <<>>
        /\ export_calls = <<>>
        /\ posts = <<>>
        /\ send_calls = <<>>

\* A run for a project that holds repositories failed for want of a
\* connector.
C13_Witness ==
    /\ ~ConnectorObtainable
    /\ pc = "Failed"
    /\ Len(vcs_repos) >= 2

\* The listing position of the repository a descriptor or message names.
ListingPosition(repository_id) ==
    CHOOSE i \in DOMAIN vcs_repos : RepoId(i) = repository_id

\* C14: the task descriptors, and the messages sent from them, are in
\* listing order: of two tasks, the one of the repository listed first comes
\* first.
C14_TasksInListingOrder ==
    /\ \A a, b \in DOMAIN project_tasks :
          a < b => ListingPosition(project_tasks[a].repository_id)
                     < ListingPosition(project_tasks[b].repository_id)
    /\ \A a, b \in DOMAIN send_calls :
          a < b =>
            ListingPosition(Member(send_calls[a].kwargs.repository, "repository_id"))
              < ListingPosition(Member(send_calls[b].kwargs.repository, "repository_id"))

\* Two tasks published around a repository that produced none, from a
\* listing that is not in id order.
C14_Witness ==
    /\ pc = "Done"
    /\ Len(vcs_repos) >= 3
    /\ GotCommit(1) /\ ~GotCommit(2) /\ GotCommit(3)
    /\ Len(Published) = 2
    /\ HasKey(vcs_repos[1], "id") /\ HasKey(vcs_repos[3], "id")
    /\ vcs_repos[1].id > vcs_repos[3].id

C20_ReportingNeverAbortsTheRun ==
    pc = "Failed" =>
        raised.step \notin {"extract_repository_id_and_name", "post"}

\* ------------------------------------------------ the backend's endpoints

\* Whether a body fails RepositoryCreate's validation.
BodyInvalid(body) == ~body.given \/ ~(RequiredFieldSet \subseteq body.present)

\* The request just answered passed validation and names an id the store
\* did not hold when it arrived.
MissingIdRequested ==
    /\ request'.method \in {"GET", "PUT", "DELETE"}
    /\ request'.method = "PUT" => ~BodyInvalid(request'.body)
    /\ request'.repository_id \notin DOMAIN db_repositories

C17_DeleteExistingCascades ==
    [][(request'.method = "DELETE"
        /\ request'.repository_id \in DOMAIN db_repositories) =>
          /\ crud_calls' =
                <<[fn |-> "get_repository",
                   repository_id |-> request'.repository_id],
                  [fn |-> "delete_repository",
                   repository_id |-> request'.repository_id,
                   delete_related |-> TRUE]>>
          /\ response'.status_code = 200
          /\ request'.repository_id \notin DOMAIN db_repositories'
          /\ request'.repository_id \notin db_related'
          /\ \A i \in DOMAIN db_repositories \ {request'.repository_id} :
                 /\ i \in DOMAIN db_repositories'
                 /\ db_repositories'[i] = db_repositories[i]
                 /\ (i \in db_related') = (i \in db_related)]_vars

C17_Witness ==
    /\ request.method = "DELETE"
    /\ response.status_code = 200
    /\ Len(crud_calls) = 2
    /\ db_related # {}

\* Whether the 422 detail names the query parameter.
DetailNames(detail, parameter) ==
    \E k \in DOMAIN detail : detail[k].loc = <<"query", parameter>>

\* C18: a list request with skip < 0 or limit < 1 is answered 422, the detail
\* names each offending query parameter, and the store is not queried.
C18_BadPaginationIs422 ==
    (request.method = "LIST" /\ (request.skip < 0 \/ request.limit < 1)) =>
        /\ response.status_code = 422
        /\ request.skip < 0 => DetailNames(response.detail, "skip")
        /\ request.limit < 1 => DetailNames(response.detail, "limit")
        /\ crud_calls = <<>>

C18_Witness ==
    /\ request.method = "LIST"
    /\ request.skip < 0
    /\ request.limit >= 1
    /\ response.status_code = 422
    /\ DOMAIN db_repositories # {}

\* C19: a POST or PUT whose body is missing or lacks a required field is
\* answered 422 with no store access at all -- for PUT not even the existence
\* lookup -- and the detail lists every missing field.
C19_InvalidBodyIs422BeforeStore ==
    [][(request'.method \in {"POST", "PUT"} /\ BodyInvalid(request'.body)) =>
          /\ response'.status_code = 422
          /\ crud_calls' = <<>>
          /\ db_repositories' = db_repositories
          /\ db_related' = db_related
          /\ request'.body.given =>
                 \A f \in RequiredFieldSet \ request'.body.present :
                     \E k \in DOMAIN response'.detail :
                         response'.detail[k].loc = <<"body", f>>]_vars

C19_Witness ==
    /\ request.method = "PUT"
    /\ request.body.given
    /\ request.body.present = RequiredFieldSet \ {"vcs_instance"}
    /\ response.status_code = 422
    /\ crud_calls = <<>>
    /\ request.repository_id \notin DOMAIN db_repositories

\* ------------------------------------------- the extraction loop, again

\* C21: export_repository is called only for a repository whose latest
\* commit is present: no export call carries an absent commit.
C21_ExportOnlyWithCommit ==
    \A k \in DOMAIN export_calls : export_calls[k].latest_commit # None

\* C22: the fetch for the record at listing position i is made with the
\* run's project key and that repository's id, the id the report carries.
C22_FetchByRepositoryId ==
    \A i \in DOMAIN commit_calls :
        /\ commit_calls[i].project_key = project_key
        /\ commit_calls[i].repository_id = RepoId(i)

\* The calls the run has made over the network.
NetworkCalls ==
    Len(repos_calls) + Len(commit_calls) + Len(posts) + Len(send_calls)

\* C23: the run makes one network call at a time, and the fetch (and export)
\* for listing position i+1 starts only when the iterations of positions
\* 1..i have ended, with a result or with a contained error.
C23_SequentialInListingOrder ==
    [][/\ NetworkCalls' <= NetworkCalls + 1
       /\ Len(commit_calls') > Len(commit_calls) =>
             /\ Len(commit_calls') = Len(commit_calls) + 1
             /\ Len(commit_calls) = idx
             /\ \A i \in 1..idx :
                    GotError(i) \/ \E k \in DOMAIN export_calls :
                                       export_calls[k].repository = vcs_repos[i]
             /\ commit_calls'[idx + 1].repository_id = vcs_repos[idx + 1].name
             /\ Len(export_calls') > Len(export_calls) =>
                    /\ Len(export_calls') = Len(export_calls) + 1
                    /\ export_calls'[Len(export_calls')].repository
                           = vcs_repos[idx + 1]]_vars

C23_Witness ==
    /\ Len(commit_calls) = 3
    /\ GotCommit(1)
    /\ commit_calls[2].outcome = HTTPError
    /\ GotCommit(3)
    /\ Len(export_calls) = 2

\* C25: every send_task call names the secret-scanner task and the
\* repository queue, and its kwargs hold the one argument "repository", the
\* serialized descriptor of one repository: the k-th call that of the k-th
\* task.
C25_MessageAddressing ==
    \A k \in DOMAIN send_calls :
        /\ send_calls[k].task_name = SECRET_SCANNER_TASK_NAME
        /\ send_calls[k].queue = REPOSITORY_QUEUE
        /\ DOMAIN send_calls[k].kwargs = {"repository"}
        /\ LET descriptor ==
                   Repository_model_validate_json(send_calls[k].kwargs.repository)
           IN  /\ DOMAIN descriptor = DOMAIN project_tasks[k]
               /\ descriptor.repository_id = project_tasks[k].repository_id
               /\ descriptor.project_key = project_key

C25_Witness ==
    /\ pc = "Done"
    /\ Len(send_calls) >= 2

\* C26: a task is enqueued only after every listed repository was processed
\* and the report was attempted; a run whose loop was left by an error that
\* is not contained sends no report and no task, whatever it had collected.
C26_DispatchAllOrNothing ==
    /\ send_calls # <<>> =>
           /\ ListingSucceeded
           /\ idx = Len(vcs_repos)
           /\ Len(posts) = 1
    /\ raised.step \in {"get_latest_commit", "export_repository"} =>
           /\ posts = <<>>
           /\ send_calls = <<>>
           /\ pc = "Failed"

C26_Witness ==
    /\ pc = "Failed"
    /\ raised.step = "get_latest_commit"
    /\ Len(project_tasks) >= 2
    /\ send_calls = <<>>
    /\ posts = <<>>

\* C28: project_tasks only grows at its end: every step keeps the
\* descriptors it held, an iteration adds at most one, the descriptor of its
\* own repository, and after k repositories the list holds at most k.
C28_TaskListAppendOnly ==
    [][/\ Len(project_tasks') <= idx'
       /\ Len(project_tasks') \in {Len(project_tasks), Len(project_tasks) + 1}
       /\ \A k \in DOMAIN project_tasks : project_tasks'[k] = project_tasks[k]
       /\ Len(project_tasks') = Len(project_tasks) + 1 =>
             /\ idx' = idx + 1
             /\ project_tasks'[Len(project_tasks')].repository_id
                    = RepoId(idx + 1)]_vars

C28_Witness ==
    /\ pc = "PerRepositoryFetch"
    /\ idx = 2
    /\ Len(project_tasks) = 2

\* ------------------------------------------------------------ two runs

\* The send_task calls run r made, in order.
QueueCallsOf(r) == SelectSeq(queue_calls, LAMBDA c : c.run = r)

\* The reports run r sent.
ReportsOf(r) == SelectSeq(report_calls, LAMBDA c : c.run = r)

\* The ids of the repositories run r's listing holds.
ListedIds(r) ==
    {ToString(runs[r].vcs_repos[k].id) : k \in DOMAIN runs[r].vcs_repos}

\* The listing positions for which run r's fetch returned a commit.
PositionsWithCommit(r) ==
    SelectSeq([i \in DOMAIN runs[r].fetched |-> i],
              LAMBDA i : runs[r].fetched[i] \in Commits)

\* The descriptor the k-th message of run r carries.
DescriptorOf(r, k) ==
    Repository_model_validate_json(QueueCallsOf(r)[k].kwargs.repository)

\* Run r dispatched what its own listing and fetch outcomes determine: one
\* message per position with a commit, in listing order.
DispatchedAsAlone(r) ==
    /\ Len(QueueCallsOf(r)) = Len(PositionsWithCommit(r))
    /\ \A k \in DOMAIN QueueCallsOf(r) :
          LET i == PositionsWithCommit(r)[k]
          IN  /\ DescriptorOf(r, k).repository_id
                     = ToString(runs[r].vcs_repos[i].id)
              /\ DescriptorOf(r, k).latest_commit = runs[r].fetched[i]

InputsOf(r) == <<runs[r].project_key, runs[r].vcs_instance_name>>

\* C24: of two runs for different (project, vcs instance) pairs that share
\* the queue client, whatever the interleaving, each sends only messages and
\* a report that carry its own project key and instance name and
\* repositories of its own listing, and a run that has finished dispatched
\* what its own listing and fetch outcomes determine.
C24_ConcurrentRunsAreIndependent ==
    (runs # <<>> /\ InputsOf(1) # InputsOf(2)) =>
        \A r \in RunIds :
            /\ \A k \in DOMAIN QueueCallsOf(r) :
                  /\ DescriptorOf(r, k).project_key = runs[r].project_key
                  /\ DescriptorOf(r, k).vcs_instance_name
                         = runs[r].vcs_instance_name
                  /\ DescriptorOf(r, k).repository_id \in ListedIds(r)
            /\ \A k \in DOMAIN ReportsOf(r) :
                  LET json == ReportsOf(r)[k].json
                  IN  /\ json.project_key = runs[r].project_key
                      /\ json.vcs_instance_name = runs[r].vcs_instance_name
                      /\ \A j \in DOMAIN json.repositories :
                             json.repositories[j].id \in ListedIds(r)
            /\ Len(ReportsOf(r)) <= 1
            /\ runs[r].pc = "Done" => DispatchedAsAlone(r)

\* Both runs finished after their messages were enqueued in alternation.
C24_Witness ==
    /\ runs # <<>>
    /\ InputsOf(1) # InputsOf(2)
    /\ runs[1].pc = "Done" /\ runs[2].pc = "Done"
    /\ Len(queue_calls) = 4
    /\ queue_calls[1].run = 1 /\ queue_calls[2].run = 2
    /\ queue_calls[3].run = 1 /\ queue_calls[4].run = 2
    /\ report_calls[1].run = 2

\* What a message says, without who sent it.
MessageOf(c) == [task_name |-> c.task_name, kwargs |-> c.kwargs, queue |-> c.queue]

MessagesOf(r) == [k \in DOMAIN QueueCallsOf(r) |-> MessageOf(QueueCallsOf(r)[k])]

\* The two runs had the same arguments and observed the same listing and
\* the same outcome of every fetch.
SameObservations ==
    /\ InputsOf(1) = InputsOf(2)
    /\ runs[1].vcs_repos = runs[2].vcs_repos
    /\ runs[1].fetched = runs[2].fetched

\* C27: two runs for the same (project, vcs instance) that observed the same
\* listing and the same fetch outcomes, and ran to completion, enqueued the
\* same sequence of messages and sent the same report, whichever ran first.
C27_RunsAreStatelessAndDeterministic ==
    (/\ runs # <<>>
     /\ SameObservations
     /\ runs[1].pc = "Done" /\ runs[2].pc = "Done") =>
        /\ MessagesOf(1) = MessagesOf(2)
        /\ Len(ReportsOf(1)) = 1 /\ Len(ReportsOf(2)) = 1
        /\ ReportsOf(1)[1].json = ReportsOf(2)[1].json
        /\ DispatchedAsAlone(1) /\ DispatchedAsAlone(2)

\* The second run started only when the first had finished, and both
\* enqueued their two messages.
C27_Witness ==
    /\ runs # <<>>
    /\ SameObservations
    /\ runs[1].pc = "Done" /\ runs[2].pc = "Done"
    /\ Len(queue_calls) = 4
    /\ queue_calls[1].run = 1 /\ queue_calls[2].run = 1
    /\ queue_calls[3].run = 2 /\ queue_calls[4].run = 2
    /\ report_calls[1].run = 1

====
